---- MODULE Spec2Model ----
(***************************************************************************)
(* Model of the gssd_mov class of ncaam_gssd_modeling_exercise.ipynb: one  *)
(* model object, its fit method (team statistics, coefficient estimation,  *)
(* calibration regression) and its three prediction methods.               *)
(*                                                                         *)
(* Numbers.  A float is a record [nan, v]: nan says the value is           *)
(* not-a-number, v is the value in units of 1/Scale (four decimal digits,  *)
(* the precision fit rounds the team statistics to).  Team names are the   *)
(* integers 1, 2, ...; their order stands for the alphabetical order of    *)
(* the names.                                                              *)
(*                                                                         *)
(* Libraries.  scipy's least_squares and statsmodels' OLS are not part of  *)
(* the repository.  Their numerical results (res.x, lin_reg.params,        *)
(* lin_reg.rsquared, lin_reg.resid.std()) are drawn from the small set     *)
(* SolverOutcomes: any outcome of that set may follow any batch.  Their    *)
(* documented control flow is modelled: least_squares raises ValueError on *)
(* residuals that are not finite at x0 and raises nothing on a             *)
(* rank-deficient problem; add_constant (has_constant='skip') adds no      *)
(* column when the data already holds a non-zero constant column; the      *)
(* standard deviation (ddof=1) of a single residual is not-a-number.       *)
(***************************************************************************)
EXTENDS Integers, Sequences, FiniteSets, TLC

\* ---------------------------------------------------------------- bounds
\* Training batches of the life cycle (Spec) are over the teams 1..NumTeams;
\* requests may also name team NumTeams+1, which no such batch holds.
NumTeams == 2
\* Training batches of the single-fit specification (SpecAgg) are over the
\* teams 1..NumAggTeams.
NumAggTeams == 3
\* Scores are 0..MaxScore.
MaxScore == 1
\* Longest training batch of the object's life cycle (Spec).
MaxGames == 2
\* Longest training batch of the single-fit specification (SpecAgg).
MaxAggGames == 3
\* Longest batched request of predict_raw.
MaxBatch == 2
\* Longest batched request of predict_mov and predict_proba_.
MaxCalBatch == 1
\* Threshold margins are 0..MaxMargin (whole points); 0 is the default.
MaxMargin == 1

\* The metric functions are applied to arrays of at most MaxSamples elements,
MaxSamples == 3
\* with targets 0..MaxTarget and predictions the halves between 0 and MaxTarget.
MaxTarget == 2

\* ------------------------------------------------------- program constants
\* round(..., 4): four decimal digits.
Scale == 10000
\* x0 = np.array([1,1,1,1,1]): five unknown parameters.
NParams == 5

\* ----------------------------------------------------------------- floats
NaN == [nan |-> TRUE, v |-> 0]
F(v) == [nan |-> FALSE, v |-> v]
\* A whole number as a float.
Whole(k) == F(k * Scale)
\* IEEE addition and multiplication: not-a-number propagates.
fAdd(a, b) == IF a.nan \/ b.nan THEN NaN ELSE F(a.v + b.v)
fMul(a, b) == IF a.nan \/ b.nan THEN NaN ELSE F((a.v * b.v) \div Scale)

\* ---------------------------------------------------------------- inputs
ReqTeams == 1..(NumTeams + 1)
Scores == 0..MaxScore
\* One row of the four aligned input sequences of fit, between two of the
\* teams 1..t.
Games(t) ==
  {g \in [away : 1..t, home : 1..t, away_final : Scores, home_final : Scores] :
     g.away # g.home}
\* The batches of one to n games.
Batches(t, n) == UNION {[1..k -> Games(t)] : k \in 1..n}

\* ------------------------------------------------------- python helpers
Range(s) == {s[i] : i \in DOMAIN s}

RECURSIVE sorted_descending(_)
\* sorted with reverse=True.
sorted_descending(S) ==
  IF S = {} THEN <<>>
  ELSE LET m == CHOOSE x \in S : \A y \in S : x >= y
       IN <<m>> \o sorted_descending(S \ {m})

RECURSIVE sorted(_)
\* sorted(list(S)): ascending.
sorted(S) ==
  IF S = {} THEN <<>>
  ELSE LET m == CHOOSE x \in S : \A y \in S : x <= y
       IN <<m>> \o sorted(S \ {m})

RECURSIVE sum(_)
\* Series.sum over a sequence of integers.
sum(s) == IF s = <<>> THEN 0 ELSE Head(s) + sum(Tail(s))

\* temp_df[temp_df[col] == team][val]: the val column of the rows whose col is team.
select(temp_df, col, team, val) ==
  LET rows == SelectSeq(temp_df, LAMBDA g : g[col] = team)
  IN [i \in 1..Len(rows) |-> rows[i][val]]

\* mean with an empty selection defaulted to zero.
mean_empty_is_zero(s) ==
  IF Len(s) = 0 THEN [nan |-> FALSE, num |-> 0, den |-> 1]
  ELSE [nan |-> FALSE, num |-> sum(s), den |-> Len(s)]

\* Series.mean(): not-a-number for an empty selection, else sum/count (kept exact).
mean(s) ==
  IF Len(s) = 0 THEN [nan |-> TRUE, num |-> 0, den |-> 1]
  ELSE [nan |-> FALSE, num |-> sum(s), den |-> Len(s)]

\* round4 cutting the digits after the fourth instead of rounding.
round4_truncating(m) ==
  IF m.nan THEN NaN ELSE F((m.num * Scale) \div m.den)

\* round(x, 4) of a numpy float: the nearest multiple of 1/Scale, ties to even;
\* not-a-number stays not-a-number.
round4(m) ==
  IF m.nan THEN NaN
  ELSE LET q == (m.num * Scale) \div m.den
           r == (m.num * Scale) % m.den
       IN F(IF 2 * r > m.den \/ (2 * r = m.den /\ q % 2 = 1) THEN q + 1 ELSE q)

\* ------------------------------------------------ fit: team statistics
\* average points for, when home
pfh(temp_df, team) == round4(mean(select(temp_df, "home", team, "home_final")))
\* average points against, when home
pah(temp_df, team) == round4(mean(select(temp_df, "home", team, "away_final")))
\* average points for, when away
pfa(temp_df, team) == round4(mean(select(temp_df, "away", team, "away_final")))
\* average points against, when away
paa(temp_df, team) == round4(mean(select(temp_df, "away", team, "home_final")))

\* self.points_df: one row per entry of teams, in that order.
points_df_of(teams, temp_df) ==
  [i \in 1..Len(teams) |->
     [team |-> teams[i],
      pfh |-> pfh(temp_df, teams[i]), pah |-> pah(temp_df, teams[i]),
      pfa |-> pfa(temp_df, teams[i]), paa |-> paa(temp_df, teams[i])]]

\* ------------------------------------------------ fit: optimisation table
RECURSIVE merge_left(_, _, _, _)
\* left.merge(right[['team'] + cols], how='left', left_on=key, right_on='team'):
\* every left row once per right row of its team, and once with undefined cols
\* when right has no row of that team; left order kept.
merge_left(left, right, key, cols) ==
  IF left = <<>> THEN <<>>
  ELSE LET row == Head(left)
           hits == SelectSeq(right, LAMBDA r : r.team = row[key])
           joined == IF hits = <<>>
                     THEN <<row @@ [c \in cols |-> NaN]>>
                     ELSE [j \in 1..Len(hits) |-> row @@ [c \in cols |-> hits[j][c]]]
       IN joined \o merge_left(Tail(left), right, key, cols)

\* opt_df with the merge keys exchanged: (pfa, paa) looked up by the home team
\* and (pfh, pah) by the away team.
opt_df_of_swapped_keys(temp_df, points_df) ==
  LET m1 == merge_left(temp_df, points_df, "home", {"pfa", "paa"})
      m2 == merge_left(m1, points_df, "away", {"pfh", "pah"})
  IN [i \in 1..Len(m2) |->
        m2[i] @@ [mov |-> Whole(m2[i].home_final - m2[i].away_final)]]

\* opt_df: the away team's (pfa, paa), the home team's (pfh, pah), and the
\* home margin of victory of every game.
opt_df_of(temp_df, points_df) ==
  LET m1 == merge_left(temp_df, points_df, "away", {"pfa", "paa"})
      m2 == merge_left(m1, points_df, "home", {"pfh", "pah"})
  IN [i \in 1..Len(m2) |->
        m2[i] @@ [mov |-> Whole(m2[i].home_final - m2[i].away_final)]]

\* pred_mov = lambda x, a, b, c, d: x[0] + x[1]*a + x[2]*b + x[3]*c + x[4]*d
pred_mov(x, a, b, c, d) ==
  fAdd(fAdd(fAdd(fAdd(x[1], fMul(x[2], a)), fMul(x[3], b)), fMul(x[4], c)), fMul(x[5], d))

\* x0 = np.array([1,1,1,1,1])
x0 == [k \in 1..NParams |-> Whole(1)]

\* least_squares checks the residuals at x0: "Residuals are not finite in the
\* initial point" is a ValueError.
residuals_finite(opt_df) ==
  \A i \in DOMAIN opt_df :
     ~ fAdd(pred_mov(x0, opt_df[i].pfh, opt_df[i].pah, opt_df[i].pfa, opt_df[i].paa),
            opt_df[i].mov).nan

\* The numerical results of least_squares and of the calibration regression:
\* x is res.x, params is lin_reg.params when it has two entries, r2 is
\* lin_reg.rsquared and err is lin_reg.resid.std() of two or more residuals.
SolverOutcomes ==
  { [x |-> x0,
     params |-> <<Whole(0), Whole(1)>>, r2 |-> Whole(1), err |-> Whole(0)],
    [x |-> <<Whole(0), Whole(2), Whole(-1), Whole(1), Whole(-2)>>,
     params |-> <<F(-5000), F(15000)>>, r2 |-> F(2500), err |-> F(12500)] }

\* opt_df['pred mov']: the in-sample raw predictions with the stored coefficients.
pred_col(x, opt_df) ==
  [i \in 1..Len(opt_df) |->
     pred_mov(x, opt_df[i].pfh, opt_df[i].pah, opt_df[i].pfa, opt_df[i].paa)]

\* sm.add_constant(X), has_constant='skip': the number of columns of the
\* result.  No constant is added when the column is already a non-zero
\* constant (np.ptp(s) == 0 and np.any(s != 0)).
add_constant_ncols(col) ==
  IF (\A i, j \in DOMAIN col : ~ col[i].nan /\ col[i] = col[j])
     /\ (\E i \in DOMAIN col : col[i].v # 0)
  THEN 1 ELSE 2

\* ---------------------------------------------------------------- object
AttrNames ==
  {"a_teams", "h_teams", "teams", "points_df",
   "opt_intercept", "opt_pfh", "opt_pah", "opt_pfa", "opt_paa", "pred_mov",
   "model_r2", "lr_intercept", "lr_coefficient", "model_error"}

\* A gssd_mov() object before any fit: no attribute is assigned (the values
\* below are placeholders that no method can read: see attrs).
NewObject ==
  [a_teams |-> <<>>, h_teams |-> <<>>, teams |-> <<>>, points_df |-> <<>>,
   opt_intercept |-> NaN, opt_pfh |-> NaN, opt_pah |-> NaN, opt_pfa |-> NaN,
   opt_paa |-> NaN, pred_mov |-> <<>>, model_r2 |-> NaN, lr_intercept |-> NaN,
   lr_coefficient |-> NaN, model_error |-> NaN]

\* Attributes the successive statements of fit assign.
RosterAttrs == {"a_teams", "h_teams", "teams"}
CoefAttrs == {"opt_intercept", "opt_pfh", "opt_pah", "opt_pfa", "opt_paa"}
CalibAttrs == {"lr_intercept", "lr_coefficient", "model_error"}

\* The rosters compared by their sizes only.
rosters_match_by_count(a_teams, h_teams) == Len(a_teams) = Len(h_teams)

\* if self.a_teams == self.h_teams: ... else: warnings.warn(...)
rosters_match(a_teams, h_teams) == a_teams = h_teams

\* fit(self, away_teams, home_teams, away_scores, home_scores) on the batch b
\* with the libraries' numerical results o, statement by statement: the values
\* the call assigns to attributes of self (vals, read only at the names in
\* assigned), whether it warned, and how it ended.  An exception leaves the
\* attributes assigned before it in place.
fit(b, o) ==
  LET a_teams == sorted({b[i].away : i \in DOMAIN b})
      h_teams == sorted({b[i].home : i \in DOMAIN b})
      warn == ~ rosters_match(a_teams, h_teams)
      teams == sorted(Range(a_teams \o h_teams))
      temp_df == b
      points_df == points_df_of(teams, temp_df)
      opt_df == opt_df_of(temp_df, points_df)
      ls_ok == residuals_finite(opt_df)
      col == pred_col(o.x, opt_df)
      ncols == add_constant_ncols(col)
      s2 == [NewObject EXCEPT !.a_teams = a_teams, !.h_teams = h_teams, !.teams = teams,
                              !.points_df = points_df]
      s4 == [s2 EXCEPT !.opt_intercept = o.x[1], !.opt_pfh = o.x[2], !.opt_pah = o.x[3],
                       !.opt_pfa = o.x[4], !.opt_paa = o.x[5],
                       !.pred_mov = col, !.model_r2 = o.r2]
      s6 == [s4 EXCEPT !.lr_intercept = o.params[1], !.lr_coefficient = o.params[2],
                       !.model_error = IF Len(b) < 2 THEN NaN ELSE o.err]
  IN IF ~ ls_ok
     THEN [vals |-> s2, assigned |-> RosterAttrs \cup {"points_df"},
           warned |-> warn, status |-> "ValueError"]
     ELSE IF ncols # 2
     THEN [vals |-> s4,
           assigned |-> RosterAttrs \cup {"points_df", "pred_mov", "model_r2"} \cup CoefAttrs,
           warned |-> warn, status |-> "ValueError"]
     ELSE [vals |-> s6, assigned |-> AttrNames, warned |-> warn, status |-> "ok"]

\* ------------------------------------------------------------ predictions
Ok(value) == [status |-> "ok", value |-> value]
Raise(exc) == [status |-> exc, value |-> <<>>]

\* self.points_df[self.points_df['team']==team][col].values
stat_values(points_df, team, col) ==
  LET rows == SelectSeq(points_df, LAMBDA r : r.team = team)
  IN [i \in 1..Len(rows) |-> rows[i][col]]

\* predict_raw with the two teams' roles exchanged.
predict_raw_scalar_swapped(slf, at, away_team, home_team) ==
  IF "points_df" \notin at THEN Raise("AttributeError")
  ELSE IF stat_values(slf.points_df, away_team, "pfh") = <<>> THEN Raise("IndexError")
  ELSE IF stat_values(slf.points_df, home_team, "pfa") = <<>> THEN Raise("IndexError")
  ELSE IF ~ (CoefAttrs \subseteq at) THEN Raise("AttributeError")
  ELSE LET s_pfh == stat_values(slf.points_df, away_team, "pfh")[1]
           s_pah == stat_values(slf.points_df, away_team, "pah")[1]
           s_pfa == stat_values(slf.points_df, home_team, "pfa")[1]
           s_paa == stat_values(slf.points_df, home_team, "paa")[1]
       IN Ok(<<fAdd(fAdd(fAdd(fAdd(slf.opt_intercept, fMul(slf.opt_pfh, s_pfh)),
                                   fMul(slf.opt_pah, s_pah)),
                              fMul(slf.opt_pfa, s_pfa)),
                         fMul(slf.opt_paa, s_paa))>>)

\* predict_raw, both identifiers strings.
predict_raw_scalar(slf, at, away_team, home_team) ==
  IF "points_df" \notin at THEN Raise("AttributeError")
  ELSE IF stat_values(slf.points_df, home_team, "pfh") = <<>> THEN Raise("IndexError")
  ELSE IF stat_values(slf.points_df, away_team, "pfa") = <<>> THEN Raise("IndexError")
  ELSE IF ~ (CoefAttrs \subseteq at) THEN Raise("AttributeError")
  ELSE LET s_pfh == stat_values(slf.points_df, home_team, "pfh")[1]
           s_pah == stat_values(slf.points_df, home_team, "pah")[1]
           s_pfa == stat_values(slf.points_df, away_team, "pfa")[1]
           s_paa == stat_values(slf.points_df, away_team, "paa")[1]
       IN Ok(<<fAdd(fAdd(fAdd(fAdd(slf.opt_intercept, fMul(slf.opt_pfh, s_pfh)),
                                   fMul(slf.opt_pah, s_pah)),
                              fMul(slf.opt_pfa, s_pfa)),
                         fMul(slf.opt_paa, s_paa))>>)

\* list(zip(away_team, home_team)): as long as the shorter sequence.
zip(a, h) ==
  [i \in 1..(IF Len(a) < Len(h) THEN Len(a) ELSE Len(h)) |-> <<a[i], h[i]>>]

RECURSIVE predict_raw_loop_partial(_, _, _, _)
\* The loop returning the predictions made so far when a team is unknown.
predict_raw_loop_partial(slf, at, matchups, predictions) ==
  IF matchups = <<>> THEN Ok(predictions)
  ELSE LET match == Head(matchups) IN
       IF "points_df" \notin at THEN Raise("AttributeError")
       ELSE IF stat_values(slf.points_df, match[2], "pfh") = <<>> THEN Ok(predictions)
       ELSE IF stat_values(slf.points_df, match[1], "pfa") = <<>> THEN Ok(predictions)
       ELSE IF ~ (CoefAttrs \subseteq at) THEN Raise("AttributeError")
       ELSE LET s_pfh == stat_values(slf.points_df, match[2], "pfh")[1]
                s_pah == stat_values(slf.points_df, match[2], "pah")[1]
                s_pfa == stat_values(slf.points_df, match[1], "pfa")[1]
                s_paa == stat_values(slf.points_df, match[1], "paa")[1]
                p == fAdd(fAdd(fAdd(fAdd(slf.opt_intercept, fMul(slf.opt_pfh, s_pfh)),
                                         fMul(slf.opt_pah, s_pah)),
                                    fMul(slf.opt_pfa, s_pfa)),
                               fMul(slf.opt_paa, s_paa))
            IN predict_raw_loop_partial(slf, at, Tail(matchups), Append(predictions, p))

RECURSIVE predict_raw_loop_swapped(_, _, _, _)
\* The loop reading match[0] as the home team and match[1] as the away team.
predict_raw_loop_swapped(slf, at, matchups, predictions) ==
  IF matchups = <<>> THEN Ok(predictions)
  ELSE LET match == Head(matchups) IN
       IF "points_df" \notin at THEN Raise("AttributeError")
       ELSE IF stat_values(slf.points_df, match[1], "pfh") = <<>> THEN Raise("IndexError")
       ELSE IF stat_values(slf.points_df, match[2], "pfa") = <<>> THEN Raise("IndexError")
       ELSE IF ~ (CoefAttrs \subseteq at) THEN Raise("AttributeError")
       ELSE LET s_pfh == stat_values(slf.points_df, match[1], "pfh")[1]
                s_pah == stat_values(slf.points_df, match[1], "pah")[1]
                s_pfa == stat_values(slf.points_df, match[2], "pfa")[1]
                s_paa == stat_values(slf.points_df, match[2], "paa")[1]
                p == fAdd(fAdd(fAdd(fAdd(slf.opt_intercept, fMul(slf.opt_pfh, s_pfh)),
                                         fMul(slf.opt_pah, s_pah)),
                                    fMul(slf.opt_pfa, s_pfa)),
                               fMul(slf.opt_paa, s_paa))
            IN predict_raw_loop_swapped(slf, at, Tail(matchups), Append(predictions, p))

RECURSIVE predict_raw_loop(_, _, _, _)
\* for match in matchups: ... predictions.append(...): match[0] is the away
\* team, match[1] the home team; an exception ends the loop and the call.
predict_raw_loop(slf, at, matchups, predictions) ==
  IF matchups = <<>> THEN Ok(predictions)
  ELSE LET match == Head(matchups) IN
       IF "points_df" \notin at THEN Raise("AttributeError")
       ELSE IF stat_values(slf.points_df, match[2], "pfh") = <<>> THEN Raise("IndexError")
       ELSE IF stat_values(slf.points_df, match[1], "pfa") = <<>> THEN Raise("IndexError")
       ELSE IF ~ (CoefAttrs \subseteq at) THEN Raise("AttributeError")
       ELSE LET s_pfh == stat_values(slf.points_df, match[2], "pfh")[1]
                s_pah == stat_values(slf.points_df, match[2], "pah")[1]
                s_pfa == stat_values(slf.points_df, match[1], "pfa")[1]
                s_paa == stat_values(slf.points_df, match[1], "paa")[1]
                p == fAdd(fAdd(fAdd(fAdd(slf.opt_intercept, fMul(slf.opt_pfh, s_pfh)),
                                         fMul(slf.opt_pah, s_pah)),
                                    fMul(slf.opt_pfa, s_pfa)),
                               fMul(slf.opt_paa, s_paa))
            IN predict_raw_loop(slf, at, Tail(matchups), Append(predictions, p))

\* predict_raw, the else branch: sequences of identifiers.
predict_raw_batch(slf, at, away_team, home_team) ==
  predict_raw_loop(slf, at, zip(away_team, home_team), <<>>)

\* A request: shape "scalar" carries two strings (one-element away and home),
\* shape "array" two sequences.  type(away_team) == str and type(home_team) == str
\* is the shape test.
predict_raw(slf, at, req) ==
  IF req.shape = "scalar"
  THEN predict_raw_scalar(slf, at, req.away[1], req.home[1])
  ELSE predict_raw_batch(slf, at, req.away, req.home)

\* predict_mov: est_spread = self.lr_intercept + (self.lr_coefficient * pred_mov),
\* elementwise over the array predict_raw returned.
predict_mov(slf, at, req) ==
  LET raw == predict_raw(slf, at, req)
  IN IF raw.status # "ok" THEN raw
     ELSE IF ~ ({"lr_intercept", "lr_coefficient"} \subseteq at) THEN Raise("AttributeError")
     ELSE Ok([i \in 1..Len(raw.value) |->
                fAdd(slf.lr_intercept, fMul(slf.lr_coefficient, raw.value[i]))])

\* 1 - norm.cdf(x, loc, scale).  scipy returns not-a-number unless scale > 0
\* and every argument is a number.  Otherwise the value is 1/2 at x = loc,
\* above 1/2 for loc > x and below it for loc < x: the model keeps 3/4 and 1/4
\* for "some value in (1/2, 1]" and "some value in [0, 1/2)".
one_minus_norm_cdf(x, loc, scale) ==
  IF x.nan \/ loc.nan \/ scale.nan THEN NaN
  ELSE IF scale.v <= 0 THEN NaN
  ELSE IF loc.v = x.v THEN F(Scale \div 2)
  ELSE IF loc.v > x.v THEN F(3 * (Scale \div 4))
  ELSE F(Scale \div 4)

\* predict_proba_: win_pct = 1 - norm.cdf(margin, est_spread, self.model_error)
predict_proba_(slf, at, req, margin) ==
  LET est == predict_mov(slf, at, req)
  IN IF est.status # "ok" THEN est
     ELSE IF "model_error" \notin at THEN Raise("AttributeError")
     ELSE Ok([i \in 1..Len(est.value) |->
                one_minus_norm_cdf(margin, est.value[i], slf.model_error)])

\* The requests of the model: a scalar matchup, or two equal-length sequences
\* of at most n identifiers; a matchup names two different teams.
Matchups == {m \in ReqTeams \X ReqTeams : m[1] # m[2]}
Requests(n) ==
  {[shape |-> "scalar", away |-> <<m[1]>>, home |-> <<m[2]>>] : m \in Matchups}
  \cup UNION {{[shape |-> "array",
                away |-> [i \in 1..k |-> ms[i][1]],
                home |-> [i \in 1..k |-> ms[i][2]]] : ms \in [1..k -> Matchups]} :
              k \in 0..n}
RawRequests == Requests(MaxBatch)
CalRequests == Requests(MaxCalBatch)
Margins == {Whole(m) : m \in 0..MaxMargin}

\* ------------------------------------------------------------------ state
VARIABLES
  self,     \* the attribute values of the one gssd_mov object
  attrs,    \* the attributes assigned so far (reading another is an AttributeError)
  batch,    \* the batch of the latest fit call (SpecAgg: of the call to come)
  origin,   \* per attribute: 0 never assigned, 2 assigned by the latest fit call,
            \* 1 assigned by an earlier one
  ret       \* the latest call: operation, arguments, how it ended, what it returned

vars == <<self, attrs, batch, origin, ret>>

NoRequest == [shape |-> "none", away |-> <<>>, home |-> <<>>]

Call(op, req, margin, status, value, warned) ==
  [op |-> op, req |-> req, margin |-> margin, status |-> status, value |-> value,
   warned |-> warned]

Init ==
  /\ self = NewObject
  /\ attrs = {}
  /\ batch = <<>>
  /\ origin = [n \in AttrNames |-> 0]
  /\ ret = Call("init", NoRequest, Whole(0), "ok", <<>>, FALSE)

\* One call of fit on batch b: the whole method, up to its return or its exception.
FitCall(b, r) ==
  /\ self' = [n \in AttrNames |-> IF n \in r.assigned THEN r.vals[n] ELSE self[n]]
     /\ attrs' = attrs \cup r.assigned
     /\ batch' = b
     /\ origin' = [n \in AttrNames |->
                     IF n \in r.assigned THEN 2 ELSE IF origin[n] = 0 THEN 0 ELSE 1]
     /\ ret' = Call("fit", NoRequest, Whole(0), r.status, <<>>, r.warned)

\* Every fit call of the life cycle with its result.
FitCalls ==
  {[b |-> b, r |-> fit(b, o)] : b \in Batches(NumTeams, MaxGames), o \in SolverOutcomes}

Fit == \E c \in FitCalls : FitCall(c.b, c.r)

\* predict_raw keeping its result in self.pred_mov.
PredictRawStoring ==
  \E req \in RawRequests :
     LET r == predict_raw(self, attrs, req)
     IN /\ ret' = Call("predict_raw", req, Whole(0), r.status, r.value, FALSE)
        /\ self' = [self EXCEPT !.pred_mov = r.value]
        /\ attrs' = attrs \cup {"pred_mov"}
        /\ UNCHANGED <<batch, origin>>

PredictRaw ==
  \E req \in RawRequests :
     LET r == predict_raw(self, attrs, req)
     IN /\ ret' = Call("predict_raw", req, Whole(0), r.status, r.value, FALSE)
        /\ UNCHANGED <<self, attrs, batch, origin>>

PredictMov ==
  \E req \in CalRequests :
     LET r == predict_mov(self, attrs, req)
     IN /\ ret' = Call("predict_mov", req, Whole(0), r.status, r.value, FALSE)
        /\ UNCHANGED <<self, attrs, batch, origin>>

PredictProba ==
  \E req \in CalRequests, margin \in Margins :
     LET r == predict_proba_(self, attrs, req, margin)
     IN /\ ret' = Call("predict_proba_", req, margin, r.status, r.value, FALSE)
        /\ UNCHANGED <<self, attrs, batch, origin>>

Next == Fit \/ PredictRaw \/ PredictMov \/ PredictProba

Spec == Init /\ [][Next]_vars

\* The single-fit specification: the batch is drawn first, from the longer
\* batches, and fit is applied to it once.
InitAgg ==
  /\ self = NewObject
  /\ attrs = {}
  /\ batch \in Batches(NumAggTeams, MaxAggGames)
  /\ origin = [n \in AttrNames |-> 0]
  /\ ret = Call("init", NoRequest, Whole(0), "ok", <<>>, FALSE)

FitInput == ret.op = "init" /\ \E o \in SolverOutcomes : FitCall(batch, fit(batch, o))

NextAgg == FitInput

SpecAgg == InitAgg /\ [][NextAgg]_vars

\* ------------------------------------------------------------ properties
\* What the properties say about a batch, written from the games themselves.
Fitted == "points_df" \in attrs
HomeGames(b, t) == {i \in DOMAIN b : b[i].home = t}
AwayGames(b, t) == {i \in DOMAIN b : b[i].away = t}
TeamsOf(b) == {b[i].away : i \in DOMAIN b} \cup {b[i].home : i \in DOMAIN b}

RECURSIVE Total(_, _, _)
\* The sum of column col of batch b over the games I.
Total(b, I, col) ==
  IF I = {} THEN 0
  ELSE LET i == CHOOSE j \in I : TRUE IN b[i][col] + Total(b, I \ {i}, col)

Abs(n) == IF n < 0 THEN 0 - n ELSE n

\* stat is the mean of col over the games I (not empty), to four decimal
\* digits: no multiple of 1/Scale is nearer to the mean.
IsMeanTo4(stat, b, I, col) ==
  /\ ~ stat.nan
  /\ 2 * Abs(stat.v * Cardinality(I) - Scale * Total(b, I, col)) <= Cardinality(I)

\* C1: after fit, for every team of the stats table with games on a side, the
\* two statistics of that side are the means of the scores of those games
\* (pfh: home_score at home, pah: away_score at home, pfa: away_score away,
\* paa: home_score away), each rounded to four decimal digits.
C1_StatsAreRoundedMeans ==
  Fitted =>
    \A k \in DOMAIN self.points_df :
       LET row == self.points_df[k]
           H == HomeGames(batch, row.team)
           A == AwayGames(batch, row.team)
       IN /\ H # {} => /\ IsMeanTo4(row.pfh, batch, H, "home_final")
                       /\ IsMeanTo4(row.pah, batch, H, "away_final")
          /\ A # {} => /\ IsMeanTo4(row.pfa, batch, A, "away_final")
                       /\ IsMeanTo4(row.paa, batch, A, "home_final")

\* C1 witness: a fitted table with a team whose three home games have a mean
\* home score with more than four decimal digits, and other away scores.
C1_Witness ==
  /\ Fitted
  /\ \E k \in DOMAIN self.points_df :
        LET H == HomeGames(batch, self.points_df[k].team)
        IN /\ Cardinality(H) = 3
           /\ Total(batch, H, "home_final") % 3 = 2
           /\ Total(batch, H, "away_final") # Total(batch, H, "home_final")

\* C4: after fit, a statistic is not-a-number exactly when its team has no
\* game on that side: pfh and pah for a team never home, pfa and paa for a
\* team never away; a team with a game on a side has numbers there.
C4_UndefinedExactlyWhenSideMissing ==
  Fitted =>
    \A k \in DOMAIN self.points_df :
       LET row == self.points_df[k]
       IN /\ row.pfh.nan <=> HomeGames(batch, row.team) = {}
          /\ row.pah.nan <=> HomeGames(batch, row.team) = {}
          /\ row.pfa.nan <=> AwayGames(batch, row.team) = {}
          /\ row.paa.nan <=> AwayGames(batch, row.team) = {}

\* C4 witness: a fitted table with a team that was never home (pfh, pah
\* undefined) but was away (pfa, paa numbers).
C4_Witness ==
  /\ Fitted
  /\ \E k \in DOMAIN self.points_df :
        LET row == self.points_df[k]
        IN /\ HomeGames(batch, row.team) = {} /\ row.pfh.nan /\ row.pah.nan
           /\ AwayGames(batch, row.team) # {} /\ ~ row.pfa.nan /\ ~ row.paa.nan

\* The permutations of 1..n.
Perms(n) == {p \in [1..n -> 1..n] : \A i, j \in 1..n : p[i] = p[j] => i = j}

\* C10: the stats table holds exactly one row per distinct team of the batch,
\* in ascending team order, and fit on any permutation of the games of the
\* batch produces the identical table.
C10_TableIsFunctionOfGameMultiset ==
  Fitted =>
    /\ {self.points_df[k].team : k \in DOMAIN self.points_df} = TeamsOf(batch)
    /\ \A k \in DOMAIN self.points_df :
          k > 1 => self.points_df[k - 1].team < self.points_df[k].team
    /\ \A p \in Perms(Len(batch)) : \A o \in SolverOutcomes :
          fit([i \in 1..Len(batch) |-> batch[p[i]]], o).vals.points_df = self.points_df

\* C10 witness: a fitted table of a batch of three different games whose first
\* game is played at the home of the higher-named team.
C10_Witness ==
  /\ Fitted
  /\ Len(batch) = 3
  /\ Cardinality(Range(batch)) = 3
  /\ batch[1].away > batch[1].home
  /\ Len(self.points_df) = 3

\* The attributes the prediction methods read.
PredictAttrs == {"points_df"} \cup CoefAttrs \cup CalibAttrs

\* A column is a non-zero constant: all entries equal and not zero.
NonZeroConstant(col) ==
  /\ \A i, j \in DOMAIN col : col[i] = col[j]
  /\ \E i \in DOMAIN col : col[i] # Whole(0)

RostersDiffer(b) == {b[i].away : i \in DOMAIN b} # {b[i].home : i \in DOMAIN b}

C7_RankDeficientFitFails ==
  (ret.op = "fit" /\ Len(batch) < NParams) =>
    /\ ret.status # "ok"
    /\ \A n \in CoefAttrs : origin[n] # 2

\* C6 as claimed: the stats table, the coefficients and the calibration
\* parameters the prediction methods read were all assigned by one fit call.
C6_NeverPartiallyUpdated ==
  \A m, n \in PredictAttrs : origin[m] = origin[n]

\* The statistic col of team t in the fitted table.
TableStat(t, col) ==
  (CHOOSE r \in Range(self.points_df) : r.team = t)[col]

\* intercept + w_pfh*pfh(h) + w_pah*pah(h) + w_pfa*pfa(a) + w_paa*paa(a)
SpecMargin(a, h) ==
  fAdd(fAdd(fAdd(fAdd(self.opt_intercept,
                      fMul(self.opt_pfh, TableStat(h, "pfh"))),
                 fMul(self.opt_pah, TableStat(h, "pah"))),
            fMul(self.opt_pfa, TableStat(a, "pfa"))),
       fMul(self.opt_paa, TableStat(a, "paa")))

Scalar(a, h) == [shape |-> "scalar", away |-> <<a>>, home |-> <<h>>]
HasCoefs == Fitted /\ CoefAttrs \subseteq attrs

\* C2: for every matchup (away a, home h) of known teams, predict_raw is
\* intercept + w_pfh*pfh(h) + w_pah*pah(h) + w_pfa*pfa(a) + w_paa*paa(a), and
\* the in-sample prediction fit stored for each training game is that same
\* expression at the game's away and home team.
C2_PredictRawFormula ==
  HasCoefs =>
    /\ \A a \in TeamsOf(batch), h \in TeamsOf(batch) :
          predict_raw(self, attrs, Scalar(a, h)) = Ok(<<SpecMargin(a, h)>>)
    /\ origin["pred_mov"] = 2 =>
          /\ Len(self.pred_mov) = Len(batch)
          /\ \A i \in DOMAIN batch :
                self.pred_mov[i] = SpecMargin(batch[i].away, batch[i].home)

\* C2 witness: predict_raw has returned a number for a scalar matchup whose
\* reverse matchup has another value.
C2_Witness ==
  /\ HasCoefs
  /\ ret.op = "predict_raw" /\ ret.req.shape = "scalar" /\ ret.status = "ok"
  /\ ~ ret.value[1].nan
  /\ ret.value[1] = SpecMargin(ret.req.away[1], ret.req.home[1])
  /\ ret.value[1] # SpecMargin(ret.req.home[1], ret.req.away[1])

RequestTeams(req) == Range(req.away) \cup Range(req.home)

\* C3: after fit, predict_raw (scalar or batched) ends in a lookup failure,
\* with no value and no partial result, exactly when a team of the request is
\* in neither column of the training batch; otherwise it returns one value per
\* matchup.
C3_LookupFailureIffUnseenTeam ==
  HasCoefs =>
    \A req \in RawRequests :
       LET r == predict_raw(self, attrs, req)
           unseen == \E t \in RequestTeams(req) : t \notin TeamsOf(batch)
       IN /\ r.status = "IndexError" <=> unseen
          /\ unseen => r.value = <<>>
          /\ ~ unseen => r.status = "ok" /\ Len(r.value) = Len(req.away)

\* C3 witness: a batched predict_raw call whose first matchup is of known
\* teams and whose second names an unseen team has ended in a lookup failure
\* with no value.
C3_Witness ==
  /\ HasCoefs
  /\ ret.op = "predict_raw" /\ ret.req.shape = "array" /\ Len(ret.req.away) = 2
  /\ {ret.req.away[1], ret.req.home[1]} \subseteq TeamsOf(batch)
  /\ ret.req.home[2] \notin TeamsOf(batch)
  /\ ret.status = "IndexError" /\ ret.value = <<>>

PredictOps == {"predict_raw", "predict_mov", "predict_proba_"}

\* C8: a prediction call (scalar or batched, succeeding or failing) changes no
\* attribute of the model, and the same query asked twice in a row returns the
\* same result.
C8_PredictionsReadOnly ==
  [][ret'.op \in PredictOps =>
        /\ self' = self /\ attrs' = attrs
        /\ (ret.op = ret'.op /\ ret.req = ret'.req /\ ret.margin = ret'.margin)
              => ret' = ret]_vars

\* C8 witness: a batched predict_mov call has returned on a fully fitted model
\* whose attributes all come from the latest fit call.
C8_Witness ==
  /\ ret.op = "predict_mov" /\ ret.req.shape = "array" /\ ret.status = "ok"
  /\ Len(ret.value) = 1
  /\ \A n \in AttrNames : origin[n] = 2

\* C9: for two equal-length sequences of known teams the batched predict_raw
\* returns one element per matchup, in input order, element i being the scalar
\* predict_raw of matchup i; two scalar identifiers yield a single value.
C9_BatchIsMapOfScalar ==
  HasCoefs =>
    \A req \in RawRequests :
       RequestTeams(req) \subseteq TeamsOf(batch) =>
          LET r == predict_raw(self, attrs, req)
          IN /\ r.status = "ok"
             /\ Len(r.value) = Len(req.away)
             /\ \A i \in DOMAIN req.away :
                   <<r.value[i]>> =
                      predict_raw(self, attrs, Scalar(req.away[i], req.home[i])).value

\* C9 witness: a batched predict_raw call of two matchups of known teams has
\* returned two different numbers.
C9_Witness ==
  /\ HasCoefs
  /\ ret.op = "predict_raw" /\ ret.req.shape = "array" /\ ret.status = "ok"
  /\ Len(ret.value) = 2
  /\ ~ ret.value[1].nan /\ ~ ret.value[2].nan
  /\ ret.value[1] # ret.value[2]

\* A float is a probability: a number between 0 and 1.
IsProbability(p) == ~ p.nan /\ 0 <= p.v /\ p.v <= Scale

\* C11 as claimed: on every model a completed fit call leaves, for every pair
\* of teams of the training batch and every threshold margin, predict_proba_
\* returns a number in [0,1], never a not-a-number; this covers models whose
\* model_error is 0 or undefined.
C11_ProbabilityInUnitInterval ==
  (ret.op = "fit" /\ ret.status = "ok") =>
    \A a \in TeamsOf(batch), h \in TeamsOf(batch), margin \in Margins :
       a # h =>
         LET r == predict_proba_(self, attrs, Scalar(a, h), margin)
         IN r.status = "ok" /\ IsProbability(r.value[1])

\* ------------------------------------------------------ error metrics
\* numpy floats with the infinities: F(v), NaN, and
PosInf == [nan |-> FALSE, v |-> 1, inf |-> TRUE]
NegInf == [nan |-> FALSE, v |-> -1, inf |-> TRUE]
IsInf(a) == "inf" \in DOMAIN a
IsFinite(a) == ~ a.nan /\ ~ IsInf(a)
Sign(a) == IF a.v > 0 THEN 1 ELSE IF a.v < 0 THEN -1 ELSE 0
Signed(k) == IF k > 0 THEN PosInf ELSE NegInf

\* IEEE a + b: inf + (-inf) is not-a-number.
eAdd(a, b) ==
  IF a.nan \/ b.nan THEN NaN
  ELSE IF IsInf(a) /\ IsInf(b) THEN (IF a = b THEN a ELSE NaN)
  ELSE IF IsInf(a) THEN a
  ELSE IF IsInf(b) THEN b
  ELSE F(a.v + b.v)

\* IEEE a * b: 0 * inf is not-a-number.
eMul(a, b) ==
  IF a.nan \/ b.nan THEN NaN
  ELSE IF IsInf(a) \/ IsInf(b)
       THEN (IF Sign(a) * Sign(b) = 0 THEN NaN ELSE Signed(Sign(a) * Sign(b)))
  ELSE F((a.v * b.v) \div Scale)

eNeg(a) == eMul(a, Whole(-1))
eSub(a, b) == eAdd(a, eNeg(b))

\* numpy a / b: x / 0 is an infinity and 0 / 0 not-a-number (a RuntimeWarning
\* is printed, the value is returned).
eDiv(a, b) ==
  IF a.nan \/ b.nan THEN NaN
  ELSE IF IsInf(a) THEN (IF IsInf(b) THEN NaN
                        ELSE Signed(Sign(a) * (IF b.v < 0 THEN -1 ELSE 1)))
  ELSE IF IsInf(b) THEN F(0)
  ELSE IF b.v = 0 THEN (IF a.v = 0 THEN NaN ELSE Signed(Sign(a)))
  ELSE F((a.v * Scale) \div b.v)

\* abs(a)
eAbs(a) == IF a.nan THEN NaN ELSE IF IsInf(a) THEN PosInf ELSE F(IF a.v < 0 THEN -a.v ELSE a.v)

RECURSIVE isqrt(_, _, _)
\* The largest r in lo..hi with r * r <= n, by bisection.
isqrt(n, lo, hi) ==
  IF lo = hi THEN lo
  ELSE LET mid == (lo + hi + 1) \div 2
       IN IF mid * mid <= n THEN isqrt(n, mid, hi) ELSE isqrt(n, lo, mid - 1)

\* np.sqrt(a): the largest multiple of 1/Scale whose square is at most a.
np_sqrt(a) ==
  IF a.nan THEN NaN
  ELSE IF IsInf(a) THEN (IF a = PosInf THEN PosInf ELSE NaN)
  ELSE IF a.v < 0 THEN NaN
  ELSE F(isqrt(a.v * Scale, 0, a.v + Scale))

\* np.log(a): minus infinity at 0, 0 at 1, and the logarithm to four digits
\* at the quarters and at 2 (the arguments of the model).
np_log(a) ==
  IF a.nan THEN NaN
  ELSE IF IsInf(a) THEN (IF a = PosInf THEN PosInf ELSE NaN)
  ELSE IF a.v < 0 THEN NaN
  ELSE IF a.v = 0 THEN NegInf
  ELSE IF 4 * a.v = Scale THEN F(-13863)
  ELSE IF 2 * a.v = Scale THEN F(-6931)
  ELSE IF 4 * a.v = 3 * Scale THEN F(-2877)
  ELSE IF a.v = Scale THEN F(0)
  ELSE F(6931)  \* a.v = 2 * Scale

RECURSIVE py_sum(_)
\* The builtin sum(...) over the elements of an array, from the int 0.
py_sum(s) == IF s = <<>> THEN F(0) ELSE eAdd(py_sum(SubSeq(s, 1, Len(s) - 1)), s[Len(s)])

\* arr.mean() / np.mean(arr): not-a-number for an empty array.
np_mean(s) == IF s = <<>> THEN NaN ELSE eDiv(py_sum(s), Whole(Len(s)))

\* predictions - targets, elementwise.
diff(predictions, targets) ==
  [i \in 1..Len(targets) |-> eSub(predictions[i], targets[i])]

\* arr * arr, arr ** 2
squared(arr) == [i \in 1..Len(arr) |-> eMul(arr[i], arr[i])]

\* sum_squared_error with predictions + targets in place of the difference.
sum_squared_error_of_sums(predictions, targets) ==
  py_sum(squared([i \in 1..Len(targets) |-> eAdd(predictions[i], targets[i])]))

\* def sum_squared_error(predictions, targets):
\*     return sum((predictions - targets) * (predictions - targets))
sum_squared_error(predictions, targets) ==
  py_sum(squared(diff(predictions, targets)))

\* def r_squared(predictions, targets).  Of two empty arrays both sums are the
\* int 0 and 0 / 0 raises ZeroDivisionError; otherwise the division is numpy's.
r_squared(predictions, targets) ==
  LET y_mean_line == [i \in 1..Len(targets) |-> np_mean(targets)]
      squared_error_regression == sum_squared_error(predictions, targets)
      squared_error_y_mean == sum_squared_error(targets, y_mean_line)
  IN IF Len(targets) = 0 THEN Raise("ZeroDivisionError")
     ELSE Ok(eSub(Whole(1), eDiv(squared_error_regression, squared_error_y_mean)))

\* def rmse(predictions, targets): np.sqrt(((predictions-targets)**2).mean())
rmse(predictions, targets) ==
  Ok(np_sqrt(np_mean(squared(diff(predictions, targets)))))

\* def mae(predictions, targets): abs(predictions - targets).mean()
mae(predictions, targets) ==
  LET d == diff(predictions, targets)
  IN Ok(np_mean([i \in 1..Len(d) |-> eAbs(d[i])]))

\* def brier_score(projected_probabilities, actual_results)
brier_score(projected_probabilities, actual_results) ==
  LET prob_error_sq == squared(diff(actual_results, projected_probabilities))
  IN IF Len(prob_error_sq) = 0 THEN Raise("ZeroDivisionError")
     ELSE Ok(eDiv(py_sum(prob_error_sq), Whole(Len(prob_error_sq))))

\* def log_loss(projected_probabilities, actual_results)
log_loss(projected_probabilities, actual_results) ==
  LET log_error ==
        [i \in 1..Len(actual_results) |->
           eAdd(eMul(actual_results[i], np_log(projected_probabilities[i])),
                eMul(eSub(Whole(1), actual_results[i]),
                     np_log(eSub(Whole(1), projected_probabilities[i]))))]
  IN IF Len(log_error) = 0 THEN Raise("ZeroDivisionError")
     ELSE Ok(eDiv(eMul(py_sum(log_error), Whole(-1)), Whole(Len(log_error))))

\* ------------------------------------------- metrics: the specification
\* The two aligned arrays a metric function is called with.
Targets == {Whole(k) : k \in 0..MaxTarget}
Predictions == {F(k * (Scale \div 2)) : k \in 0..(2 * MaxTarget)}
MetricInputs ==
  UNION {[predictions : [1..n -> Predictions], targets : [1..n -> Targets]] :
           n \in 0..MaxSamples}

\* Probabilities in [0, 1] with outcomes 0 or 1: the arguments of brier_score
\* and log_loss.
ProbabilityInputs(b) ==
  \A i \in DOMAIN b.targets :
     b.predictions[i].v <= Scale /\ b.targets[i].v \in {0, Scale}

\* In this specification batch holds the two arrays and ret the latest call
\* of a metric function on them.
InitMetrics ==
  /\ self = NewObject
  /\ attrs = {}
  /\ batch \in MetricInputs
  /\ origin = [n \in AttrNames |-> 0]
  /\ ret = Call("init", NoRequest, Whole(0), "ok", <<>>, FALSE)

MetricCall(op, r) == Call(op, NoRequest, Whole(0), r.status, r.value, FALSE)

SumSquaredError ==
  /\ ret' = MetricCall("sum_squared_error",
                       Ok(sum_squared_error(batch.predictions, batch.targets)))
  /\ UNCHANGED <<self, attrs, batch, origin>>

RSquared ==
  /\ ret' = MetricCall("r_squared", r_squared(batch.predictions, batch.targets))
  /\ UNCHANGED <<self, attrs, batch, origin>>

Rmse ==
  /\ ret' = MetricCall("rmse", rmse(batch.predictions, batch.targets))
  /\ UNCHANGED <<self, attrs, batch, origin>>

Mae ==
  /\ ret' = MetricCall("mae", mae(batch.predictions, batch.targets))
  /\ UNCHANGED <<self, attrs, batch, origin>>

BrierScore ==
  /\ ProbabilityInputs(batch)
  /\ ret' = MetricCall("brier_score", brier_score(batch.predictions, batch.targets))
  /\ UNCHANGED <<self, attrs, batch, origin>>

LogLoss ==
  /\ ProbabilityInputs(batch)
  /\ ret' = MetricCall("log_loss", log_loss(batch.predictions, batch.targets))
  /\ UNCHANGED <<self, attrs, batch, origin>>

NextMetrics == SumSquaredError \/ RSquared \/ Rmse \/ Mae \/ BrierScore \/ LogLoss

SpecMetrics == InitMetrics /\ [][NextMetrics]_vars

\* ------------------------------------------------ metrics: properties
\* All elements of the array are equal.
ConstantArray(arr) == \A i, j \in DOMAIN arr : arr[i] = arr[j]

\* C12 as claimed: r_squared on targets that are all equal signals the
\* undefined metric instead of returning a value, and on any other targets
\* returns 1 - SSE(p, t) / SSE(t, mean(t)).
C12_RSquaredSignalsConstantTargets ==
  ret.op = "r_squared" =>
    LET p == batch.predictions
        t == batch.targets
    IN IF ConstantArray(t)
       THEN ret.status # "ok"
       ELSE /\ ret.status = "ok"
            /\ ret.value =
                 eSub(Whole(1),
                      eDiv(sum_squared_error(p, t),
                           sum_squared_error(t, [i \in DOMAIN t |-> np_mean(t)])))

\* C13 as claimed: log_loss never returns a not-a-number or an infinity: with
\* a probability of 0 on outcome 1, or of 1 on outcome 0, the call either
\* signals the condition or returns the finite value of clipped probabilities.
C13_LogLossNeverNonFinite ==
  (ret.op = "log_loss" /\ ret.status = "ok") => IsFinite(ret.value)

\* Every probability that is exactly 1 has outcome 1 and every probability
\* that is exactly 0 has outcome 0.
ExtremesMatch(b) ==
  \A i \in DOMAIN b.targets :
     /\ b.predictions[i] = Whole(1) => b.targets[i] = Whole(1)
     /\ b.predictions[i] = Whole(0) => b.targets[i] = Whole(0)

\* C14 as claimed: on one or more samples whose probabilities of exactly 0 or
\* 1 all have the matching outcome, log_loss returns a finite value, and the
\* value 0 when every probability is 0 or 1.
C14_LogLossFiniteOnMatchingExtremes ==
  (ret.op = "log_loss" /\ Len(batch.targets) > 0 /\ ExtremesMatch(batch)) =>
     /\ ret.status = "ok"
     /\ IsFinite(ret.value)
     /\ (\A i \in DOMAIN batch.predictions :
            batch.predictions[i] \in {Whole(0), Whole(1)}) => ret.value = F(0)

\* The call was made with predictions equal to the targets, element by element.
PerfectPredictions == batch.predictions = batch.targets

\* C15 as claimed: for every sequence y, sum_squared_error(y, y), rmse(y, y)
\* and mae(y, y) are 0; for every non-constant y, r_squared(y, y) is 1; and
\* brier_score is 0 when the probabilities equal the outcomes (0 or 1).
C15_PerfectOnEverySequence ==
  PerfectPredictions =>
    /\ ret.op \in {"sum_squared_error", "rmse", "mae", "brier_score"} =>
          ret.status = "ok" /\ ret.value = F(0)
    /\ (ret.op = "r_squared" /\ ~ ConstantArray(batch.targets)) =>
          ret.status = "ok" /\ ret.value = Whole(1)

\* C15 amended: the same for every sequence y of one or more elements; of two
\* empty arrays sum_squared_error is 0, rmse and mae return not-a-number and
\* brier_score raises ZeroDivisionError.
C15_PerfectOnNonEmptySequences ==
  PerfectPredictions =>
    /\ ret.op = "sum_squared_error" => ret.status = "ok" /\ ret.value = F(0)
    /\ ret.op \in {"rmse", "mae"} =>
          /\ ret.status = "ok"
          /\ ret.value = IF Len(batch.targets) = 0 THEN NaN ELSE F(0)
    /\ ret.op = "brier_score" =>
          IF Len(batch.targets) = 0 THEN ret.status = "ZeroDivisionError"
          ELSE ret.status = "ok" /\ ret.value = F(0)
    /\ (ret.op = "r_squared" /\ ~ ConstantArray(batch.targets)) =>
          ret.status = "ok" /\ ret.value = Whole(1)

\* C15 witness: r_squared has returned 1 for three non-constant targets used
\* as their own predictions.
C15_Witness ==
  /\ PerfectPredictions /\ Len(batch.targets) = 3 /\ ~ ConstantArray(batch.targets)
  /\ ret.op = "r_squared" /\ ret.status = "ok" /\ ret.value = Whole(1)

\* ------------------------------------------- optimisation table: C16
\* C16: after fit the optimisation table has one row per training game, in
\* input order, whose four features are the home team's pfh, pah and the away
\* team's pfa, paa and are all numbers, whether or not the rosters differ; so
\* least_squares gets finite residuals and stores the coefficients, the
\* in-sample predictions are numbers, and predict_raw on two teams of the
\* batch is not-a-number exactly when the home team never played at home or
\* the away team never played away.
C16_OptTableRowsDefined ==
  ret.op = "fit" =>
    LET opt_df == opt_df_of(batch, self.points_df)
    IN /\ Len(opt_df) = Len(batch)
       /\ \A i \in DOMAIN batch :
             /\ opt_df[i].away = batch[i].away /\ opt_df[i].home = batch[i].home
             /\ opt_df[i].away_final = batch[i].away_final
             /\ opt_df[i].home_final = batch[i].home_final
             /\ opt_df[i].pfh = TableStat(batch[i].home, "pfh")
             /\ opt_df[i].pah = TableStat(batch[i].home, "pah")
             /\ opt_df[i].pfa = TableStat(batch[i].away, "pfa")
             /\ opt_df[i].paa = TableStat(batch[i].away, "paa")
             /\ \A c \in {"pfh", "pah", "pfa", "paa"} : ~ opt_df[i][c].nan
       /\ \A n \in CoefAttrs \cup {"pred_mov"} : origin[n] = 2
       /\ Len(self.pred_mov) = Len(batch)
       /\ \A i \in DOMAIN self.pred_mov : ~ self.pred_mov[i].nan
       /\ \A a \in TeamsOf(batch), h \in TeamsOf(batch) :
             predict_raw(self, attrs, Scalar(a, h)).value[1].nan
                <=> (HomeGames(batch, h) = {} \/ AwayGames(batch, a) = {})

\* C16 witness: fit has run on three games with differing rosters, the table
\* holds an undefined statistic, and the three in-sample predictions are
\* numbers.
C16_Witness ==
  /\ ret.op = "fit" /\ Len(batch) = 3 /\ RostersDiffer(batch)
  /\ \E k \in DOMAIN self.points_df : self.points_df[k].pfh.nan
  /\ Len(self.pred_mov) = 3
  /\ \A i \in DOMAIN self.pred_mov : ~ self.pred_mov[i].nan
====
